---- MODULE Spec2Model ----
(***************************************************************************)
(* Model of the webhook-to-Telegram relay: the /webhook handler            *)
(* (src/main.py), its command router process_telegram_command, the startup *)
(* handler, and the WhiteBit exchange client (src/whitebit_api.py) with    *)
(* its request signing.                                                    *)
(*                                                                         *)
(* Strings that the code builds by concatenation are sequences of string   *)
(* tokens; user-visible Russian/emoji literals are written as ASCII tags.  *)
(* A handler is split only at the await on the exchange HTTP call, the     *)
(* one point where another webhook request can interleave with a signed    *)
(* call in progress.                                                       *)
(***************************************************************************)
EXTENDS Integers, Sequences, FiniteSets, TLC

\* ---------------------------------------------------------------- bounds
MaxReqs == 2        \* webhook requests that may be in progress at once
MaxClock == 1       \* the millisecond clock runs from 0 to MaxClock
MaxEntries == 2     \* currencies in one balance response

VARIABLES
    WEBHOOK_SECRET, \* main.py:25, read once from the environment
    clock,          \* time.time() * 1000, truncated to an integer
    startup,        \* outcome of startup_event
    reqs,           \* per in-progress /webhook request: position and locals
    issued_nonce,   \* nonce of the most recent signed call, "" before any
    last            \* the most recently completed /webhook invocation

vars == <<WEBHOOK_SECRET, clock, startup, reqs, issued_nonce, last>>

Reqs == 1..MaxReqs

\* ------------------------------------------------------- configuration
TELEGRAM_CHAT_ID == "1001"
WHITEBIT_API_KEY == "api-key"
WHITEBIT_API_SECRET == "api-secret"
base_url == "https://whitebit.com"

\* main.py:44-48, in insertion order
COMMANDS ==
    << <<"/start", "[list] Show command list">>,
       <<"/balance", "[money] Show exchange balance">>,
       <<"/help", "[?] Show command help">> >>

\* ------------------------------------------------------------- inputs
NONE == "None"
ABSENT == "<absent>"

Secrets == {NONE, "s3"}
ChatIds == {"1001", "2002"}

\* texts as character sequences, so that startswith is computed
T_start     == <<"/","s","t","a","r","t">>
T_help      == <<"/","h","e","l","p">>
T_balance   == <<"/","b","a","l","a","n","c","e">>
T_startx    == <<"/","s","t","a","r","t","x">>
T_balance_x == <<"/","b","a","l","a","n","c","e"," ","x">>
T_bal       == <<"/","b","a","l">>
T_foo       == <<"/","f","o","o">>
T_empty     == <<>>

Texts == {T_start, T_help, T_startx, T_balance_x, T_bal, T_foo, T_empty}

\* str.startswith
StartsWith(text, prefix) ==
    /\ Len(text) >= Len(prefix)
    /\ SubSeq(text, 1, Len(prefix)) = prefix

\* ------------------------------------------------ exchange environment
\* currency codes in document order
Currencies == <<"BTC", "USD", "ETH", "EUR">>
AvailableVals == {ABSENT, "-1", "0", "0.5", "abc"}
FreezeVals == {ABSENT, "0.1"}

EntryData == [available : AvailableVals, freeze : FreezeVals]

\* a JSON object has distinct keys; Python keeps them in document order
Mappings ==
    UNION { { [i \in 1..n |-> [currency |-> Currencies[i],
                               available |-> d[i].available,
                               freeze |-> d[i].freeze]]
              : d \in [1..n -> EntryData] }
            : n \in 0..MaxEntries }

\* the response of spec.md section 8, and one entry of each other kind
SampleMappings ==
    { <<>>,
      << [currency |-> "BTC", available |-> "0.5", freeze |-> "0.1"],
         [currency |-> "USD", available |-> "0", freeze |-> "0"] >>,
      << [currency |-> "BTC", available |-> "-1", freeze |-> ABSENT] >>,
      << [currency |-> "BTC", available |-> ABSENT, freeze |-> "0.1"],
         [currency |-> "USD", available |-> "abc", freeze |-> ABSENT] >> }

NoBody == [kind |-> "none", entries |-> <<>>, text |-> ""]
MappingBody(m) == [kind |-> "mapping", entries |-> m, text |-> "json-object"]
ListBody == [kind |-> "list", entries |-> <<>>, text |-> "[]"]
HtmlBody == [kind |-> "text", entries |-> <<>>, text |-> "<html>"]
ErrBody == [kind |-> "text", entries |-> <<>>, text |-> "err-body"]

NoOutcome == [kind |-> "none", status |-> 0, body |-> NoBody, error |-> ""]
TransportError == [kind |-> "transport_error", status |-> 0, body |-> NoBody,
                   error |-> "ConnectError"]
Response(status, body) == [kind |-> "response", status |-> status, body |-> body,
                           error |-> ""]

\* what the POST to the balance endpoint can come back with
OutcomesOver(mappings) ==
    {TransportError}
    \cup {Response(s, ErrBody) : s \in {401, 500}}
    \cup {Response(200, b) : b \in {MappingBody(m) : m \in mappings}
                                   \cup {ListBody, HtmlBody}}

ExchangeOutcomes == OutcomesOver(SampleMappings)
AllExchangeOutcomes == OutcomesOver(Mappings)

\* what the GET to the public time endpoint can come back with
ProbeOutcomes ==
    {TransportError} \cup {Response(s, NoBody) : s \in {200, 404, 500}}

\* ------------------------------------------------------ exchange client
\* json.dumps of a dict held as a sequence of <<key, value>> pairs
RECURSIVE JsonItems(_)
JsonItems(data) ==
    IF data = <<>> THEN <<>>
    ELSE <<data[1][1], ": ", data[1][2]>>
         \o (IF Len(data) > 1 THEN <<", ">> ELSE <<>>)
         \o JsonItems(Tail(data))

JsonDumps(data) == <<"{">> \o JsonItems(data) \o <<"}">>

\* data[key] = value on an insertion-ordered dict
DictSet(data, key, value) ==
    IF \E i \in 1..Len(data) : data[i][1] = key
    THEN [i \in 1..Len(data) |->
            IF data[i][1] = key THEN <<key, value>> ELSE data[i]]
    ELSE Append(data, <<key, value>>)

DictHas(data, key) == \E i \in 1..Len(data) : data[i][1] = key
DictGet(data, key) == data[CHOOSE i \in 1..Len(data) : data[i][1] = key][2]

\* hmac.new(key, msg, sha512).hexdigest(): determined by key and message
HmacSha512Hex(key, msg) == [alg |-> "hmac-sha512", key |-> key, msg |-> msg]

\* str(int(time.time() * 1000))
Nonce(now) == ToString(now)
NonceValue(s) == CHOOSE n \in 0..MaxClock : ToString(n) = s

\* variant: signs a copy and leaves the caller's dict as it was
GenerateSignature_Copy(endpoint, data, now) ==
    LET d1 == DictSet(data, "request", endpoint)
        d2 == DictSet(d1, "nonce", Nonce(now))
    IN [data |-> data, nonce |-> Nonce(now),
        signature |-> HmacSha512Hex(WHITEBIT_API_SECRET, JsonDumps(d2))]

\* _generate_signature mutates the dict it is given; the mutated dict and
\* the nonce stored in it are returned here next to the signature
GenerateSignature(endpoint, data, now) ==
    LET d1 == DictSet(data, "request", endpoint)
        d2 == DictSet(d1, "nonce", Nonce(now))
        encoded_data == JsonDumps(d2)
    IN [data |-> d2, nonce |-> DictGet(d2, "nonce"),
        signature |-> HmacSha512Hex(WHITEBIT_API_SECRET, encoded_data)]

BalanceEndpoint == "/api/v4/trade-account/balance"

NoCall == [url |-> <<>>, payload |-> <<>>, apikey |-> "", nonce |-> "",
           signature |-> HmacSha512Hex("", <<>>), json |-> <<>>]

\* variant: the payload header is serialized from a body without the nonce
GetBalanceRequest_StalePayload(now) ==
    LET signed == GenerateSignature(BalanceEndpoint, <<>>, now)
    IN [url |-> <<base_url, BalanceEndpoint>>,
        apikey |-> WHITEBIT_API_KEY,
        payload |-> JsonDumps(DictSet(<<>>, "request", BalanceEndpoint)),
        signature |-> signed.signature,
        nonce |-> signed.nonce,
        json |-> signed.data]

\* get_balance up to the await on client.post: the request put on the wire
GetBalanceRequest(now) ==
    LET data == <<>>
        signed == GenerateSignature(BalanceEndpoint, data, now)
    IN [url |-> <<base_url, BalanceEndpoint>>,
        apikey |-> WHITEBIT_API_KEY,
        payload |-> JsonDumps(signed.data),
        signature |-> signed.signature,
        nonce |-> signed.nonce,
        json |-> signed.data]

WrapPrefix == "Balance fetch failed: "
StatusPrefix == "Balance error. Status: "

NoResult == [raised |-> FALSE, value |-> NoBody, msg |-> <<>>]

\* variant: every status below 500 is taken for success
GetBalanceResult_Lenient(outcome) ==
    IF outcome.kind = "transport_error"
    THEN [raised |-> TRUE, value |-> NoBody,
          msg |-> <<WrapPrefix, outcome.error>>]
    ELSE IF outcome.status < 500
    THEN IF outcome.body.kind = "text"
         THEN [raised |-> TRUE, value |-> NoBody,
               msg |-> <<WrapPrefix, "Expecting value: line 1 column 1 (char 0)">>]
         ELSE [raised |-> FALSE, value |-> outcome.body, msg |-> <<>>]
    ELSE [raised |-> TRUE, value |-> NoBody,
          msg |-> <<WrapPrefix, StatusPrefix, ToString(outcome.status),
                    ", Response: ", outcome.body.text>>]

\* get_balance from the response on: the parsed body, or the exception
\* re-raised by the outer except with the inner message appended
GetBalanceResult(outcome) ==
    IF outcome.kind = "transport_error"
    THEN [raised |-> TRUE, value |-> NoBody,
          msg |-> <<WrapPrefix, outcome.error>>]
    ELSE IF outcome.status = 200
    THEN IF outcome.body.kind = "text"
         THEN [raised |-> TRUE, value |-> NoBody,
               msg |-> <<WrapPrefix, "Expecting value: line 1 column 1 (char 0)">>]
         ELSE [raised |-> FALSE, value |-> outcome.body, msg |-> <<>>]
    ELSE [raised |-> TRUE, value |-> NoBody,
          msg |-> <<WrapPrefix, StatusPrefix, ToString(outcome.status),
                    ", Response: ", outcome.body.text>>]

\* variant: the transport failure is not caught
TestConnection_Raises(outcome) ==
    IF outcome.kind = "transport_error"
    THEN [raised |-> TRUE, value |-> FALSE]
    ELSE [raised |-> FALSE, value |-> (outcome.status = 200)]

\* test_connection: [raised, value]
TestConnection(outcome) ==
    IF outcome.kind = "transport_error"
    THEN [raised |-> FALSE, value |-> FALSE]
    ELSE [raised |-> FALSE, value |-> (outcome.status = 200)]

\* ------------------------------------------------------ command router
AccessDenied == <<"[no-entry] Access denied">>
UnknownCommand == <<"[x] Unknown command. Send /help for the command list.">>
ErrorPrefix == "[x] Error: "
BalanceHeader == "[money] <b>WhiteBit balance:</b>\n\n"

\* get_commands_list: header, then "{cmd} - {desc}\n" per command
RECURSIVE CommandLines(_)
CommandLines(cmds) ==
    IF cmds = <<>> THEN <<>>
    ELSE <<cmds[1][1], " - ", cmds[1][2], "\n">> \o CommandLines(Tail(cmds))

get_commands_list == <<"[bot] <b>Available commands:</b>\n\n">> \o CommandLines(COMMANDS)

\* float(): tenths of a unit, or a ValueError
ParseFloat(s) ==
    CASE s = "0"   -> [ok |-> TRUE, val |-> 0]
      [] s = "0.1" -> [ok |-> TRUE, val |-> 1]
      [] s = "0.5" -> [ok |-> TRUE, val |-> 5]
      [] s = "-1"  -> [ok |-> TRUE, val |-> -10]
      [] OTHER     -> [ok |-> FALSE, val |-> 0]

\* data.get(key, 0): the default 0 is rendered "0" and parses to 0.0
GetOrZero(v) == IF v = ABSENT THEN "0" ELSE v

\* "* {currency}: {data['available']} (in orders: {data.get('freeze', 0)})\n"
BalanceLine(e) ==
    <<"* ", e.currency, ": ", e.available, " (in orders: ", GetOrZero(e.freeze), ")\n">>

\* variant: every nonzero amount is shown
Displayed_Nonzero(amount) == amount # 0

\* whether the loop of main.py:148-150 appends a line for this amount
Displayed(amount) == amount > 0

\* the for loop of main.py:148-150: the accumulated lines, or the
\* ValueError of the first entry whose amount float() rejects
RECURSIVE FormatEntries(_)
FormatEntries(entries) ==
    IF entries = <<>> THEN [raised |-> FALSE, text |-> <<>>]
    ELSE LET e == Head(entries)
             p == ParseFloat(GetOrZero(e.available))
         IN IF ~p.ok
            THEN [raised |-> TRUE,
                  text |-> <<"could not convert string to float: ", e.available>>]
            ELSE LET rest == FormatEntries(Tail(entries))
                 IN IF rest.raised THEN rest
                    ELSE [raised |-> FALSE,
                          text |-> (IF Displayed(p.val) THEN BalanceLine(e) ELSE <<>>)
                                   \o rest.text]

\* the except clause of process_telegram_command
CommandError(msg) == <<ErrorPrefix>> \o msg

\* variant: the command is looked up before the sender is checked
Dispatch_AuthLast(text, chat_id) ==
    IF StartsWith(text, T_start) \/ StartsWith(text, T_help)
    THEN [fetch |-> FALSE, reply |-> get_commands_list]
    ELSE IF StartsWith(text, T_balance)
    THEN [fetch |-> TRUE, reply |-> <<>>]
    ELSE IF chat_id # TELEGRAM_CHAT_ID
    THEN [fetch |-> FALSE, reply |-> AccessDenied]
    ELSE [fetch |-> FALSE, reply |-> UnknownCommand]

\* variant: commands are matched by equality instead of by prefix
Dispatch_Exact(text, chat_id) ==
    IF chat_id # TELEGRAM_CHAT_ID
    THEN [fetch |-> FALSE, reply |-> AccessDenied]
    ELSE IF text = T_start \/ text = T_help
    THEN [fetch |-> FALSE, reply |-> get_commands_list]
    ELSE IF text = T_balance \/ text = T_balance_x
    THEN [fetch |-> TRUE, reply |-> <<>>]
    ELSE [fetch |-> FALSE, reply |-> UnknownCommand]

\* process_telegram_command up to the await on get_balance
Dispatch(text, chat_id) ==
    IF chat_id # TELEGRAM_CHAT_ID
    THEN [fetch |-> FALSE, reply |-> AccessDenied]
    ELSE IF StartsWith(text, T_start) \/ StartsWith(text, T_help)
    THEN [fetch |-> FALSE, reply |-> get_commands_list]
    ELSE IF StartsWith(text, T_balance)
    THEN [fetch |-> TRUE, reply |-> <<>>]
    ELSE [fetch |-> FALSE, reply |-> UnknownCommand]

\* variant: only the failures of get_balance are caught, not those of
\* the formatting loop
BalanceReply_FormatUncaught(gb) ==
    IF gb.raised
    THEN [raised |-> FALSE, reply |-> CommandError(gb.msg)]
    ELSE IF gb.value.kind # "mapping"
    THEN [raised |-> TRUE, reply |-> <<"'list' object has no attribute 'items'">>]
    ELSE LET f == FormatEntries(gb.value.entries)
         IN IF f.raised
            THEN [raised |-> TRUE, reply |-> f.text]
            ELSE [raised |-> FALSE, reply |-> <<BalanceHeader>> \o f.text]

\* process_telegram_command from the return of get_balance on:
\* [raised, reply]
BalanceReply(gb) ==
    IF gb.raised
    THEN [raised |-> FALSE, reply |-> CommandError(gb.msg)]
    ELSE IF gb.value.kind # "mapping"
    THEN [raised |-> FALSE,
          reply |-> CommandError(<<"'list' object has no attribute 'items'">>)]
    ELSE LET f == FormatEntries(gb.value.entries)
         IN IF f.raised
            THEN [raised |-> FALSE, reply |-> CommandError(f.text)]
            ELSE [raised |-> FALSE, reply |-> <<BalanceHeader>> \o f.text]

\* ------------------------------------------------------ webhook handler
NotJsonBody == [kind |-> "not_json", text |-> <<>>, chat_id |-> ""]
GenericBody == [kind |-> "generic", text |-> <<>>, chat_id |-> ""]
CommandBody(text, chat_id) == [kind |-> "command", text |-> text, chat_id |-> chat_id]

Bodies == {NotJsonBody, GenericBody}
          \cup {CommandBody(t, c) : t \in Texts, c \in ChatIds}

\* the condition of main.py:205
SecretMismatch(secret) == WEBHOOK_SECRET # "" /\ secret # WEBHOOK_SECRET

HTTPException(status, detail) == [type |-> "HTTPException", status |-> status,
                                  detail |-> detail]
JSONDecodeError == [type |-> "JSONDecodeError", status |-> 0,
                    detail |-> <<"Expecting value">>]
OtherException(msg) == [type |-> "Exception", status |-> 0, detail |-> msg]

\* str(e)
ExcStr(e) ==
    IF e.type = "HTTPException"
    THEN <<ToString(e.status), ": ">> \o e.detail
    ELSE e.detail

\* the except clauses of receive_webhook, for an exception raised in its
\* try block: the HTTP answer and the Telegram messages sent
WebhookExcept(e) ==
    IF e.type = "JSONDecodeError"
    THEN [http_status |-> 400, detail |-> <<"Invalid JSON">>, sent |-> <<>>]
    ELSE [http_status |-> 500, detail |-> ExcStr(e),
          sent |-> << <<"[x] Webhook processing error: ">> \o ExcStr(e) >>]

GenericMessage == <<"[bell] <b>New webhook!</b>\n\n", "time", "data">>

NoInvocation ==
    [kind |-> "none", secret |-> NONE, http_status |-> 0, detail |-> <<>>,
     body_read |-> FALSE, dispatched |-> FALSE, text |-> <<>>, chat_id |-> "",
     called_exchange |-> FALSE, outcome |-> NoOutcome, gb |-> NoResult,
     reply |-> <<>>, sent |-> <<>>]

IdleReq == [pc |-> "idle", secret |-> NONE, text |-> <<>>, chat_id |-> "",
            call |-> NoCall]

\* an invocation that ends in an except clause
Failed(secret, body_read, e) ==
    LET x == WebhookExcept(e)
    IN [NoInvocation EXCEPT !.kind = "webhook", !.secret = secret,
                            !.body_read = body_read,
                            !.http_status = x.http_status,
                            !.detail = x.detail, !.sent = x.sent]

\* receive_webhook without a call to the exchange: the completed invocation
WebhookNoFetch(secret, body) ==
    IF SecretMismatch(secret)
    THEN Failed(secret, FALSE, HTTPException(401, <<"Invalid secret">>))
    ELSE IF body.kind = "not_json"
    THEN Failed(secret, TRUE, JSONDecodeError)
    ELSE IF body.kind = "command"
    THEN [NoInvocation EXCEPT !.kind = "webhook", !.secret = secret,
                              !.body_read = TRUE, !.dispatched = TRUE,
                              !.text = body.text, !.chat_id = body.chat_id,
                              !.reply = Dispatch(body.text, body.chat_id).reply,
                              !.sent = <<Dispatch(body.text, body.chat_id).reply>>,
                              !.http_status = 200,
                              !.detail = <<"Command processed">>]
    ELSE [NoInvocation EXCEPT !.kind = "webhook", !.secret = secret,
                              !.body_read = TRUE,
                              !.sent = <<GenericMessage>>,
                              !.http_status = 200,
                              !.detail = <<"Sent to Telegram">>]

\* whether the invocation reaches the await on whitebit.get_balance()
ReachesFetch(secret, body) ==
    /\ ~SecretMismatch(secret)
    /\ body.kind = "command"
    /\ Dispatch(body.text, body.chat_id).fetch

\* POST /webhook arrives: the handler runs to its end, or to the point
\* where the signed balance request is on the wire
ReceiveWebhook(r, secret, body) ==
    /\ startup.pc = "serving"
    /\ reqs[r].pc = "idle"
    /\ IF ReachesFetch(secret, body)
       THEN LET call == GetBalanceRequest(clock)
            IN /\ reqs' = [reqs EXCEPT ![r] =
                              [pc |-> "await", secret |-> secret,
                               text |-> body.text, chat_id |-> body.chat_id,
                               call |-> call]]
               /\ issued_nonce' = call.nonce
               /\ UNCHANGED last
       ELSE /\ last' = WebhookNoFetch(secret, body)
            /\ UNCHANGED <<reqs, issued_nonce>>
    /\ UNCHANGED <<WEBHOOK_SECRET, clock, startup>>

\* the exchange answers (or the transport fails): get_balance finishes,
\* process_telegram_command formats, the handler sends the reply
BalanceResponse(r, outcome) ==
    /\ reqs[r].pc = "await"
    /\ LET gb == GetBalanceResult(outcome)
           br == BalanceReply(gb)
           base == [NoInvocation EXCEPT !.kind = "webhook",
                                        !.secret = reqs[r].secret,
                                        !.body_read = TRUE, !.dispatched = TRUE,
                                        !.text = reqs[r].text,
                                        !.chat_id = reqs[r].chat_id,
                                        !.called_exchange = TRUE,
                                        !.outcome = outcome, !.gb = gb]
       IN last' = IF br.raised
                  THEN LET x == WebhookExcept(OtherException(br.reply))
                       IN [base EXCEPT !.http_status = x.http_status,
                                       !.detail = x.detail, !.sent = x.sent]
                  ELSE [base EXCEPT !.reply = br.reply, !.sent = <<br.reply>>,
                                    !.http_status = 200,
                                    !.detail = <<"Command processed">>]
    /\ reqs' = [reqs EXCEPT ![r] = IdleReq]
    /\ UNCHANGED <<WEBHOOK_SECRET, clock, startup, issued_nonce>>

\* ------------------------------------------------------------- startup
\* setup_telegram_webhook: result.get("ok", False), False on any exception
SetupTelegramWebhook(o) == o = "ok"

StartupMessage(api_status) ==
    <<"[rocket] <b>Bot started!</b>\n\n">>
    \o (IF api_status THEN <<"[ok] WhiteBit API connected\n\n">>
                      ELSE <<"[x] WhiteBit API connection error\n\n">>)
    \o get_commands_list

Booting == [pc |-> "boot", probe |-> NoOutcome, webhook_setup |-> FALSE,
            api_status |-> FALSE, failed |-> FALSE, sent |-> <<>>]

\* startup_event, run once before the server accepts requests
StartupEvent(setup, probe) ==
    /\ startup.pc = "boot"
    /\ LET tc == TestConnection(probe)
       IN startup' =
            IF tc.raised
            THEN [pc |-> "serving", probe |-> probe,
                  webhook_setup |-> SetupTelegramWebhook(setup),
                  api_status |-> FALSE, failed |-> TRUE,
                  sent |-> << <<"[x] Bot startup error: ", probe.error>> >>]
            ELSE [pc |-> "serving", probe |-> probe,
                  webhook_setup |-> SetupTelegramWebhook(setup),
                  api_status |-> tc.value, failed |-> FALSE,
                  sent |-> <<StartupMessage(tc.value)>>]
    /\ UNCHANGED <<WEBHOOK_SECRET, clock, reqs, issued_nonce, last>>

\* the wall clock advances by a millisecond
Tick ==
    /\ clock < MaxClock
    /\ clock' = clock + 1
    /\ UNCHANGED <<WEBHOOK_SECRET, startup, reqs, issued_nonce, last>>

\* the secret query parameter callers send: none, the value "s3", which is
\* the configured one or a different one; with no secret configured
\* callers send none
SentSecrets == IF WEBHOOK_SECRET = "" THEN {NONE} ELSE Secrets

Init ==
    /\ WEBHOOK_SECRET \in {"", "s3", "s4"}
    /\ clock = 0
    /\ startup = Booting
    /\ reqs = [r \in Reqs |-> IdleReq]
    /\ issued_nonce = ""
    /\ last = NoInvocation

Next ==
    \/ \E setup \in {"ok", "not_ok", "raise"}, probe \in ProbeOutcomes :
         StartupEvent(setup, probe)
    \/ Tick
    \/ \E r \in Reqs, secret \in SentSecrets, body \in Bodies :
         ReceiveWebhook(r, secret, body)
    \/ \E r \in Reqs, outcome \in ExchangeOutcomes : BalanceResponse(r, outcome)

Spec == Init /\ [][Next]_vars

\* ----------------------------------------------------- balance formatting
\* The /balance path alone, one request at a time, over every balance
\* response within the bounds.
BalanceBodies == {CommandBody(T_balance, TELEGRAM_CHAT_ID)}

InitFormat ==
    /\ WEBHOOK_SECRET = ""
    /\ clock = 0
    /\ startup = [Booting EXCEPT !.pc = "serving", !.probe = Response(200, NoBody),
                                 !.api_status = TRUE,
                                 !.sent = <<StartupMessage(TRUE)>>]
    /\ reqs = [r \in Reqs |-> IdleReq]
    /\ issued_nonce = ""
    /\ last = NoInvocation

NextFormat ==
    \/ \E body \in BalanceBodies : ReceiveWebhook(1, NONE, body)
    \/ \E outcome \in AllExchangeOutcomes : BalanceResponse(1, outcome)

SpecFormat == InitFormat /\ [][NextFormat]_vars

\* ============================================================== claims
InSeq(x, seq) == \E i \in 1..Len(seq) : seq[i] = x

\* sub occurs in seq as a contiguous run
Occurs(sub, seq) ==
    \E i \in 0..(Len(seq) - Len(sub)) : SubSeq(seq, i + 1, i + Len(sub)) = sub

Authorized == last.dispatched /\ last.chat_id = TELEGRAM_CHAT_ID
IsErrorReply(reply) == Len(reply) >= 2 /\ reply[1] = "[x] Error: "
IsBalanceReply(reply) == Len(reply) >= 1 /\ reply[1] = "[money] <b>WhiteBit balance:</b>\n\n"

CommandListText ==
    <<"[bot] <b>Available commands:</b>\n\n",
      "/start", " - ", "[list] Show command list", "\n",
      "/balance", " - ", "[money] Show exchange balance", "\n",
      "/help", " - ", "[?] Show command help", "\n">>

\* C1: a sender other than the configured chat id gets the access-denied
\* message whatever the text, and no such invocation ever has a call to
\* the exchange, in flight or completed.
C1_UnauthorizedDenied ==
    /\ (last.dispatched /\ last.chat_id # "1001") =>
          /\ last.reply = <<"[no-entry] Access denied">>
          /\ last.sent = <<last.reply>>
          /\ ~last.called_exchange
    /\ \A r \in Reqs : reqs[r].pc = "await" => reqs[r].chat_id = "1001"

C1_Witness ==
    /\ last.dispatched
    /\ last.chat_id = "2002"
    /\ StartsWith(last.text, T_balance)
    /\ last.reply = <<"[no-entry] Access denied">>

\* the ways a balance fetch fails: no response, a status other than 200, a
\* body that is no JSON object, an entry whose amount is no number
MalformedEntry(e) == e.available \notin {ABSENT, "0", "0.1", "0.5", "-1"}

FetchFailed ==
    \/ last.outcome.kind = "transport_error"
    \/ last.outcome.status # 200
    \/ last.outcome.body.kind # "mapping"
    \/ \E i \in 1..Len(last.outcome.body.entries) :
          MalformedEntry(last.outcome.body.entries[i])

\* C2: when the balance fetch of an authorized /balance fails in any way,
\* the command router returns an error string, the webhook handler sends
\* exactly that string and answers normally.
C2_BalanceFailureIsReply ==
    (last.called_exchange /\ FetchFailed) =>
        /\ IsErrorReply(last.reply)
        /\ last.sent = <<last.reply>>
        /\ last.http_status = 200
        /\ last.detail = <<"Command processed">>

C2_Witness ==
    /\ last.called_exchange
    /\ last.outcome.status = 200
    /\ last.outcome.body.kind = "mapping"
    /\ \E i \in 1..Len(last.outcome.body.entries) :
          MalformedEntry(last.outcome.body.entries[i])
    /\ IsErrorReply(last.reply)

Returned == ~last.gb.raised /\ last.gb.value = last.outcome.body
CarriesStatusAndBody ==
    /\ last.gb.raised
    /\ InSeq(ToString(last.outcome.status), last.gb.msg)
    /\ InSeq(last.outcome.body.text, last.gb.msg)

\* C3 as stated: get_balance returns the response's mapping exactly when
\* the status is 200, and fails with status and body in the message
\* otherwise.
C3_Original ==
    (last.called_exchange /\ last.outcome.kind = "response") =>
        /\ Returned <=> last.outcome.status = 200
        /\ last.outcome.status # 200 => CarriesStatusAndBody

\* C3 amended: get_balance returns only when the status is 200, and then
\* returns the parsed body provided the body is valid JSON; a 200 response
\* whose body is not JSON fails like the other failures; every non-200
\* status fails with status and body in the message.
C3_Amended ==
    (last.called_exchange /\ last.outcome.kind = "response") =>
        /\ Returned => last.outcome.status = 200
        /\ (last.outcome.status = 200 /\ last.outcome.body.kind # "text") => Returned
        /\ (last.outcome.status = 200 /\ last.outcome.body.kind = "text") =>
              last.gb.raised
        /\ last.outcome.status # 200 => CarriesStatusAndBody

C3_Witness ==
    /\ last.called_exchange
    /\ last.outcome.kind = "response"
    /\ last.outcome.status = 401
    /\ CarriesStatusAndBody

\* C4: test_connection yields true exactly when the time endpoint answers
\* 200, false on a transport failure, and never raises: startup sends the
\* startup notification in every case.
C4_ProbeNeverRaises ==
    startup.pc = "serving" =>
        /\ startup.api_status <=>
              (startup.probe.kind = "response" /\ startup.probe.status = 200)
        /\ ~startup.failed
        /\ Len(startup.sent) = 1
        /\ startup.sent[1][1] = "[rocket] <b>Bot started!</b>\n\n"
        /\ startup.sent[1][2] = IF startup.api_status
                                THEN "[ok] WhiteBit API connected\n\n"
                                ELSE "[x] WhiteBit API connection error\n\n"

C4_Witness ==
    /\ startup.pc = "serving"
    /\ startup.probe.kind = "transport_error"
    /\ ~startup.api_status
    /\ Len(startup.sent) = 1

LineOf(e) ==
    <<"* ", e.currency, ": ", e.available, " (in orders: ",
      IF e.freeze = ABSENT THEN "0" ELSE e.freeze, ")\n">>

Formatted == last.called_exchange /\ ~FetchFailed /\ IsBalanceReply(last.reply)

IsNonzero(a) == a \notin {ABSENT, "0"}
IsPositive(a) == a \in {"0.1", "0.5"}

NonzeroEntries ==
    {i \in 1..Len(last.outcome.body.entries) :
        IsNonzero(last.outcome.body.entries[i].available)}
PositiveEntries ==
    {i \in 1..Len(last.outcome.body.entries) :
        IsPositive(last.outcome.body.entries[i].available)}

\* the reply is the header and one line for each entry of shown, no other
LinesAre(shown) ==
    LET entries == last.outcome.body.entries
    IN /\ \A i \in 1..Len(entries) :
            Occurs(LineOf(entries[i]), last.reply) <=> i \in shown
       /\ Len(last.reply) = 1 + 7 * Cardinality(shown)

\* C6 as stated: the formatted reply has a line for exactly the currencies
\* whose available amount is nonzero.
C6_Original == Formatted => LinesAre(NonzeroEntries)

\* C6 amended: the formatted reply has a line for exactly the currencies
\* whose available amount is greater than zero, none for a zero, absent or
\* negative amount, and nothing else; a line carries the available amount
\* as given and the frozen amount as given, 0 when it is absent.
C6_Amended == Formatted => LinesAre(PositiveEntries)

C6_Witness ==
    /\ Formatted
    /\ \E i, j \in 1..Len(last.outcome.body.entries) :
          /\ last.outcome.body.entries[i].available = "-1"
          /\ last.outcome.body.entries[j].available = "0.5"
          /\ last.outcome.body.entries[j].freeze = ABSENT

SignedMessage(nonce) ==
    <<"{", "request", ": ", "/api/v4/trade-account/balance", ", ",
      "nonce", ": ", nonce, "}">>

\* C7: the message signed by a get_balance call holds the endpoint path and
\* a nonce read from the clock, the X-TXC-PAYLOAD header is that same
\* serialized message, and the signature is the keyed hash of it under the
\* API secret.
C7_PayloadIsSignedMessage ==
    \A r \in Reqs :
        reqs[r].pc = "await" =>
            /\ \E n \in 0..clock : reqs[r].call.nonce = ToString(n)
            /\ reqs[r].call.signature.msg = SignedMessage(reqs[r].call.nonce)
            /\ reqs[r].call.payload = reqs[r].call.signature.msg
            /\ reqs[r].call.signature.key = "api-secret"
            /\ reqs[r].call.signature.alg = "hmac-sha512"

C7_Witness ==
    \E r \in Reqs :
        /\ reqs[r].pc = "await"
        /\ reqs[r].call.payload = SignedMessage("1")

\* C8 as stated: the body sent is the body as it was before signing, empty
\* for the balance query, without the request and nonce fields.
C8_Original ==
    \A r \in Reqs : reqs[r].pc = "await" => reqs[r].call.json = <<>>

\* C8 amended: signing changes the body in place, and the body sent is the
\* signed one: it holds the request and nonce fields and serializes to the
\* X-TXC-PAYLOAD header.
C8_Amended ==
    \A r \in Reqs :
        reqs[r].pc = "await" =>
            /\ \E n \in 0..clock :
                  reqs[r].call.json =
                      << <<"request", "/api/v4/trade-account/balance">>,
                         <<"nonce", ToString(n)>> >>
            /\ JsonDumps(reqs[r].call.json) = reqs[r].call.payload

C8_Witness ==
    \E r \in Reqs :
        /\ reqs[r].pc = "await"
        /\ DictHas(reqs[r].call.json, "nonce")
        /\ DictHas(reqs[r].call.json, "request")

\* C9: the nonce of every signed call is strictly greater than the nonce
\* of the signed call before it, so that no nonce is used twice.
C9_NonceStrictlyIncreasing ==
    [][\A r \in Reqs :
          (reqs[r].pc = "idle" /\ reqs'[r].pc = "await" /\ issued_nonce # "") =>
              NonceValue(issued_nonce') > NonceValue(issued_nonce)]_vars

\* C10: with a secret configured, a request whose secret is missing or
\* different is answered 401 "Invalid secret", its body is not read, no
\* command is dispatched and no Telegram message is sent.
C10_BadSecretRejected ==
    (last.kind = "webhook" /\ WEBHOOK_SECRET # "" /\ last.secret # WEBHOOK_SECRET) =>
        /\ last.http_status = 401
        /\ last.detail = <<"Invalid secret">>
        /\ ~last.body_read
        /\ ~last.dispatched
        /\ last.sent = <<>>

====
